---- MODULE Spec2Model ----
(***************************************************************************)
(* ginit: a command-line helper that creates a remote repository and wires *)
(* the current directory to it.  The module models the three entry scripts *)
(* found in the sources:                                                   *)
(*   "cli"    - cli.js                (run / runAuth / runInit)            *)
(*   "index"  - index.js, 2nd script  (run / runAuth / runInit, rewrite)   *)
(*   "legacy" - index.js, 1st script  (top-level callback chain)           *)
(* together with the collaborators they drive: the preferences store, the  *)
(* working directory, the hosting API and the simple-git task queue.       *)
(***************************************************************************)
EXTENDS Integers, Sequences, FiniteSets, TLC

\* Number of process invocations in one session (prefs and the directory
\* survive from one invocation to the next).
MaxRuns == 2

VARIABLES
  impl,         \* which entry script this invocation runs
  arg0,         \* first positional argument ("" when there is none)
  interactive,  \* --interactive flag
  force,        \* --force flag
  prefs,        \* Preferences('ginit').github.token, "" when absent
  prefs0,       \* the stored token as this invocation found it
  saved,        \* the token last handed to the store in this session
  fs,           \* the working directory: file name -> content
  fs0,          \* the working directory as this invocation found it
  pc,           \* where the invocation's control is suspended
  exitCode,     \* -1 while the process runs, then its exit code
  ans,          \* answers given to the prompts so far
  data,         \* the descriptor handed to github.repos.create
  netPending,   \* a hosting request is in flight
  queue,        \* simple-git tasks issued and not yet run
  unhandled,    \* an error nobody handles was raised
  trace,        \* externally visible events of this invocation, in order
  runs,         \* invocations started so far
  probe,        \* lib/files.js called on its own: the path it is given
  result        \* lib/files.js called on its own: what the call gave

vars == <<impl, arg0, interactive, force, prefs, prefs0, saved, fs, fs0, pc,
          exitCode, ans, data, netPending, queue, unhandled, trace, runs,
          probe, result>>

----------------------------------------------------------------------------
\* Values

DirMark == "<dir>"
Undefined == "undefined"
NoToken == ""
Tokens == {"t1", "t2"}
\* the token a createToken request answers with
IssuedTokens == {"t2"}
NoProbe == [kind |-> "none", entries |-> <<>>]
NoResult == [call |-> "none", threw |-> FALSE, value |-> "none"]
NameOrder == <<".git", ".gitignore", "README.md", "app.js">>
RepoNames == {"myrepo", "foo"}
Descriptions == {"null", "a demo"}
CreateOutcomes == {"ok", "NameConflict", "Unauthorized"}
TokenOutcomes == {"ok", "noToken", "401", "422", "500"}

\* a JavaScript boolean among values that may also be undefined
Bool(b) == IF b THEN "true" ELSE "false"

Ev(k, op, a, b) == [k |-> k, op |-> op, a |-> a, b |-> b]

RECURSIVE join(_, _)
join(s, sep) ==
  IF s = <<>> THEN ""
  ELSE IF Len(s) = 1 THEN s[1]
  ELSE s[1] \o sep \o join(Tail(s), sep)

sshUrl(name) == "git@github.com:user/" \o name \o ".git"

----------------------------------------------------------------------------
\* lib/files.js

createFile(f, name, content) ==
  [n \in DOMAIN f \cup {name} |-> IF n = name THEN content ELSE f[n]]

directoryExists(f, path) == path \in DOMAIN f /\ f[path] = DirMark

readdirSync(f) == SelectSeq(NameOrder, LAMBDA n : n \in DOMAIN f)

directoryHasFiles(f) == Len(readdirSync(f)) > 0

getCurrentDirectoryBase == "myrepo"

getDirectoryFiles(f) ==
  SelectSeq(readdirSync(f), LAMBDA n : n # ".git" /\ n # ".gitignore")

\* touch(name): creates an empty file, leaves an existing one as it is
touch(f, name) == IF name \in DOMAIN f THEN f ELSE createFile(f, name, "")

\* What a path can lead to: a readable directory (with its entries), nothing
\* (ENOENT), a directory that may not be read (EACCES), a regular file
Probes ==
  { [kind |-> "dir", entries |-> f] :
      f \in UNION { [d -> {DirMark, "text"}] :
                     d \in SUBSET {".git", ".gitignore", "README.md",
                                   "app.js"} } }
  \cup
  { [kind |-> k, entries |-> <<>>] : k \in {"ENOENT", "EACCES", "file"} }

Threw(call) == [call |-> call, threw |-> TRUE, value |-> "none"]
Returned(call, v) == [call |-> call, threw |-> FALSE, value |-> v]

\* fs.statSync(path) succeeds on anything that exists
statSyncThrows(p) == p.kind = "ENOENT"

\* fs.readdirSync(path) succeeds on a readable directory only
readdirSyncThrows(p) == p.kind # "dir"

\* directoryExists(path): try { statSync(path).isDirectory() } catch { false }
directoryExistsAt(p) ==
  Returned("directoryExists",
           IF statSyncThrows(p) THEN FALSE ELSE p.kind \in {"dir", "EACCES"})

\* directoryHasFiles(path): try { readdirSync(path).length > 0 } catch { false }
directoryHasFilesAt(p) ==
  Returned("directoryHasFiles",
           IF readdirSyncThrows(p) THEN FALSE ELSE directoryHasFiles(p.entries))

\* getDirectoryFiles(path): readdirSync(path).filter(...), with no try
getDirectoryFilesAt(p) ==
  IF readdirSyncThrows(p) THEN Threw("getDirectoryFiles")
  ELSE Returned("getDirectoryFiles", getDirectoryFiles(p.entries))

----------------------------------------------------------------------------
\* cli.js helpers

\* the preflight without its last check
PreflightFailureNoEmptyCheck(tok, f, inter, frc) ==
  IF tok = NoToken THEN "Unauthorized"
  ELSE IF directoryExists(f, ".git") THEN "AlreadyInitialized"
  ELSE "none"

\* the preflight without its first check
PreflightFailureNoTokenCheck(tok, f, inter, frc) ==
  IF directoryExists(f, ".git") THEN "AlreadyInitialized"
  ELSE IF ~directoryHasFiles(f) /\ ~inter /\ ~frc THEN "NothingToCommit"
  ELSE "none"

\* the three checks at the top of runInit, in their order
PreflightFailure(tok, f, inter, frc) ==
  IF tok = NoToken THEN "Unauthorized"
  ELSE IF directoryExists(f, ".git") THEN "AlreadyInitialized"
  ELSE IF ~directoryHasFiles(f) /\ ~inter /\ ~frc THEN "NothingToCommit"
  ELSE "none"

PreflightMessage(failure) ==
  CASE failure = "Unauthorized" -> "Unauthorized. Please ensure you are logged in using ginit auth."
    [] failure = "AlreadyInitialized" -> "This directory is already a git repository. Exiting."
    [] OTHER -> "This directory has no files to commit. Try running in interactive or force modes."

ReadmeContent(name) == "# " \o name

IgnoreDefaults == <<"node_modules", ".DS_Store", "*.log">>

NoData == [name |-> "", description |-> Undefined, private |-> Undefined]

\* createRepository(data) without the fallback
RepoDataNoFallback(d) == d

\* createRepository(data): the name falls back to the directory's base name
RepoData(d) ==
  IF d.name = "" THEN [d EXCEPT !.name = getCurrentDirectoryBase] ELSE d

\* the chain with the commit and the push whatever the directory holds
SetupOpsAlwaysCommit(url, hasFiles) ==
  << Ev("vcs", "init", "", ""),
     Ev("vcs", "add", ".", ""),
     Ev("vcs", "commit", "Initial commit", ""),
     Ev("vcs", "addRemote", "origin", url),
     Ev("vcs", "push", "origin", "master") >>

\* the simple-git chain setupRepository(url) builds
SetupOps(url, hasFiles) ==
  IF hasFiles
  THEN << Ev("vcs", "init", "", ""),
          Ev("vcs", "add", ".", ""),
          Ev("vcs", "commit", "Initial commit", ""),
          Ev("vcs", "addRemote", "origin", url),
          Ev("vcs", "push", "origin", "master") >>
  ELSE << Ev("vcs", "init", "", ""),
          Ev("vcs", "addRemote", "origin", url) >>

FileStatus(hasFiles) == IF hasFiles THEN "with files" ELSE "without files"

NoAnswers ==
  [name |-> "", description |-> Undefined, visibility |-> Undefined,
   wantReadme |-> FALSE, wantIgnore |-> FALSE, ignore |-> <<>>]

----------------------------------------------------------------------------
\* A fresh process

Running == pc # "exited"

Fresh ==
  /\ pc = "start"
  /\ exitCode = -1
  /\ ans = NoAnswers
  /\ data = NoData
  /\ netPending = FALSE
  /\ queue = <<>>
  /\ unhandled = FALSE
  /\ trace = <<>>

\* the command lines a user can type: cli.js and the rewritten index.js take
\* a command and two flags, the first script of index.js only positional
\* arguments (a default repository name) and always prompts
Invocations ==
  { i \in [impl : {"cli", "index"}, arg0 : {"", "auth", "init"},
           interactive : BOOLEAN, force : BOOLEAN] :
      \* auth reads neither flag
      i.arg0 = "auth" => ~i.interactive /\ ~i.force }
  \cup
  [impl : {"legacy"}, arg0 : {"", "foo"}, interactive : {TRUE}, force : {FALSE}]

InitialDirs ==
  { f \in UNION { [d -> {DirMark, "text"}] :
                    d \in SUBSET {".git", ".gitignore", "app.js"} } :
      /\ "app.js" \in DOMAIN f => f["app.js"] = "text"
      /\ ".gitignore" \in DOMAIN f => f[".gitignore"] = "text" }

Init ==
  /\ \E i \in Invocations :
       /\ impl = i.impl /\ arg0 = i.arg0
       /\ interactive = i.interactive /\ force = i.force
  /\ Fresh
  /\ prefs \in {NoToken, "t1"}
  /\ prefs0 = prefs
  /\ saved = NoToken
  /\ probe = NoProbe
  /\ result = NoResult
  /\ fs \in InitialDirs
  /\ fs0 = fs
  /\ runs = 1

Exit(code) ==
  /\ pc' = "exited"
  /\ exitCode' = code

Log(t, msg) == Append(t, Ev("log", msg, "", ""))

----------------------------------------------------------------------------
\* cli.js

\* run() with runAuth as the default case
IsAuthCommandByDefault == arg0 # "init"

\* run(): 'auth' -> runAuth, anything else -> runInit
IsAuthCommand == arg0 = "auth"

\* setupRepository deciding from the directory as the preflight saw it
HasFilesAtPreflight(now, found) == directoryHasFiles(found)

\* setupRepository(url) reads the directory itself, when it is called
HasFilesAtWiring(now, found) == directoryHasFiles(now)

\* createRepository(data) as runInit calls it: the request goes out and
\* runInit is suspended on it
CliIssueCreate(t, d) ==
  /\ data' = RepoData(d)
  /\ netPending' = TRUE
  /\ trace' = Append(t, Ev("host", "createRepository", RepoData(d).name, ""))
  /\ pc' = "awaitCreate"

\* runInit up to its first suspension
CliRunInit ==
  /\ pc = "start" /\ impl = "cli" /\ ~IsAuthCommand
  /\ LET failure == PreflightFailure(prefs, fs, interactive, force)
         t1 == Append(trace, Ev("host", "authenticate", "oauth", prefs))
     IN IF failure # "none"
        THEN /\ trace' = Log(trace, PreflightMessage(failure))
             /\ Exit(1)
             /\ UNCHANGED <<data, netPending>>
        ELSE IF interactive
        THEN /\ trace' = Append(t1, Ev("prompt", "create", "", ""))
             /\ pc' = "promptCreate"
             /\ UNCHANGED <<data, netPending, exitCode>>
        ELSE /\ CliIssueCreate(t1, NoData)
             /\ UNCHANGED exitCode
  /\ UNCHANGED <<impl, arg0, interactive, force, fs0, prefs0, saved, probe,
                 result, prefs, fs, ans, queue, unhandled, runs>>

\* promptCreateQuestions() answered; promptFileQuestions() asked
CliAnswerCreate ==
  /\ pc = "promptCreate" /\ impl = "cli"
  /\ \E name \in RepoNames, description \in Descriptions,
        visibility \in {"public", "private"} :
       /\ ans' = [ans EXCEPT !.name = name, !.description = description,
                             !.visibility = visibility]
       /\ data' = [name |-> name, description |-> description,
                   private |-> Bool(visibility = "private")]
  /\ trace' = Append(trace, Ev("prompt", "files", "", ""))
  /\ pc' = "promptFiles"
  /\ UNCHANGED <<impl, arg0, interactive, force, fs0, prefs0, saved, probe,
                 result, prefs, fs, exitCode, netPending, queue, unhandled,
                 runs>>

\* the files runInit writes for the two confirmations
CliScaffold(f, name, wantReadme, wantIgnore) ==
  LET f1 == IF wantReadme
            THEN createFile(f, "README.md", ReadmeContent(name)) ELSE f
  IN IF wantIgnore
     THEN createFile(f1, ".gitignore", join(IgnoreDefaults, "\n")) ELSE f1

CliScaffoldEvents(name, wantReadme, wantIgnore) ==
  (IF wantReadme
   THEN <<Ev("write", "createFile", "README.md", ReadmeContent(name))>>
   ELSE <<>>)
  \o
  (IF wantIgnore
   THEN <<Ev("write", "createFile", ".gitignore", join(IgnoreDefaults, "\n"))>>
   ELSE <<>>)

\* promptFileQuestions() answered: scaffold, then createRepository(data)
CliAnswerFiles ==
  /\ pc = "promptFiles" /\ impl = "cli"
  /\ \E wantReadme \in BOOLEAN, wantIgnore \in BOOLEAN :
       /\ ans' = [ans EXCEPT !.wantReadme = wantReadme,
                             !.wantIgnore = wantIgnore]
       /\ fs' = CliScaffold(fs, ans.name, wantReadme, wantIgnore)
       /\ CliIssueCreate(
            trace \o CliScaffoldEvents(ans.name, wantReadme, wantIgnore), data)
  /\ UNCHANGED <<impl, arg0, interactive, force, fs0, prefs0, saved, probe,
                 result, prefs, exitCode, queue, unhandled, runs>>

\* github.repos.create settles: setupRepository on success, catch otherwise
CliCreateSettles ==
  /\ pc = "awaitCreate" /\ impl = "cli" /\ netPending
  /\ \E outcome \in CreateOutcomes :
       /\ IF outcome = "ok"
          THEN LET url == sshUrl(data.name)
                   hasFiles == HasFilesAtWiring(fs, fs0)
                   ops == SetupOps(url, hasFiles)
               IN /\ queue' = ops
                  /\ trace' = Log(
                       Append(trace, Ev("settle", "createRepository", "ok", url))
                         \o ops,
                       "Repository initalized " \o FileStatus(hasFiles) \o ".")
          ELSE /\ trace' = Log(
                    Append(trace, Ev("settle", "createRepository", outcome, "")),
                    outcome)
               /\ UNCHANGED queue
  /\ netPending' = FALSE
  /\ pc' = "draining"
  /\ UNCHANGED <<impl, arg0, interactive, force, fs0, prefs0, saved, probe,
                 result, prefs, fs, exitCode, ans, data, unhandled, runs>>

\* runAuth up to its first suspension: promptAuth() asked
CliRunAuth ==
  /\ pc = "start" /\ impl = "cli" /\ IsAuthCommand
  /\ trace' = Append(trace, Ev("prompt", "auth", "", ""))
  /\ pc' = "promptAuth"
  /\ UNCHANGED <<impl, arg0, interactive, force, fs0, prefs0, saved, probe,
                 result, prefs, fs, exitCode, ans, data, netPending, queue,
                 unhandled, runs>>

\* the store keeps its token whenever the reply is no 401 and no 422
TokenToStoreUnlessKnownError(old, outcome, tok) ==
  IF outcome \notin {"401", "422"} THEN tok ELSE old

\* the store keeps a token it already holds
TokenToStoreKeepOld(old, outcome, tok) ==
  IF outcome = "ok" /\ old = NoToken THEN tok ELSE old

\* prefs.github = { token } when the reply carries a token, else untouched
TokenToStore(old, outcome, tok) == IF outcome = "ok" THEN tok ELSE old

\* github.authenticate(basic) and github.authorization.create(...)
IssueCreateToken(t) ==
  t \o << Ev("host", "authenticate", "basic", ""),
          Ev("host", "createToken", "", "") >>

\* promptAuth() answered: the token request goes out
CliAnswerAuth ==
  /\ pc = "promptAuth" /\ impl = "cli"
  /\ trace' = IssueCreateToken(trace)
  /\ netPending' = TRUE
  /\ pc' = "awaitToken"
  /\ UNCHANGED <<impl, arg0, interactive, force, fs0, prefs0, saved, probe,
                 result, prefs, fs, exitCode, ans, data, queue, unhandled,
                 runs>>

\* what the callback of authorization.create prints for an error
CliAuthErrorLog(t, code) ==
  CASE code = "401" -> Log(t, "Couldn't log you in. Please try again.")
    [] code = "422" ->
         Log(Log(Log(t, "You already have an access token."),
                 "Try revoking your ginit access token and then trying again."),
             "  url: https://github.com/settings/tokens")
    [] OTHER -> t

\* the callback of github.authorization.create
CliTokenSettles ==
  /\ pc = "awaitToken" /\ impl = "cli" /\ netPending
  /\ \E outcome \in TokenOutcomes, tok \in IssuedTokens :
       LET t1 == Append(trace, Ev("settle", "createToken", outcome,
                                  IF outcome = "ok" THEN tok ELSE ""))
       IN /\ prefs' = TokenToStore(prefs, outcome, tok)
          /\ saved' = IF outcome = "ok" THEN tok ELSE saved
          /\ trace' = IF outcome = "ok"
                      THEN Log(t1, "Successfully authenticated.")
                      ELSE CliAuthErrorLog(t1, outcome)
  /\ netPending' = FALSE
  /\ pc' = "draining"
  /\ UNCHANGED <<impl, arg0, interactive, force, fs0, prefs0, probe,
                 result, fs, exitCode, ans, data, queue, unhandled, runs>>

----------------------------------------------------------------------------
\* index.js, second script (the rewrite in progress)

\* function runAuth () {}
IndexRunAuth ==
  /\ pc = "start" /\ impl = "index" /\ IsAuthCommand
  /\ pc' = "draining"
  /\ UNCHANGED <<impl, arg0, interactive, force, fs0, prefs0, saved, probe,
                 result, prefs, fs, exitCode, ans, data, netPending, queue,
                 unhandled, trace, runs>>

\* createRepository(): the descriptor it sends
IndexRepoData ==
  [name |-> getCurrentDirectoryBase, description |-> Undefined,
   private |-> Bool(FALSE)]

\* runInit, to its end: createRepository() hands back a promise that is not
\* awaited, so repoData.ssh_url is undefined and setupRepository runs at once
IndexRunInit ==
  /\ pc = "start" /\ impl = "index" /\ ~IsAuthCommand
  /\ LET hasFiles == directoryHasFiles(fs)
         failure == PreflightFailure(prefs, fs, interactive, force)
         t1 == Append(trace, Ev("host", "authenticate", "oauth", prefs))
         ops == SetupOps(Undefined, hasFiles)
     IN IF failure # "none"
        THEN /\ trace' = Log(trace, PreflightMessage(failure))
             /\ Exit(1)
             /\ UNCHANGED <<data, netPending, queue>>
        ELSE IF ~interactive
        THEN /\ data' = IndexRepoData
             /\ netPending' = TRUE
             /\ queue' = ops
             /\ trace' = Log(
                  Append(t1, Ev("host", "createRepository",
                                IndexRepoData.name, "")) \o ops,
                  "Repository initalized.")
             /\ pc' = "draining"
             /\ UNCHANGED exitCode
        ELSE /\ trace' = Log(t1, "Repository initalized.")
             /\ pc' = "draining"
             /\ UNCHANGED <<data, netPending, queue, exitCode>>
  /\ UNCHANGED <<impl, arg0, interactive, force, fs0, prefs0, saved, probe,
                 result, prefs, fs, ans, unhandled, runs>>

\* github.repos.create settles; nobody looks at the promise
IndexCreateSettles ==
  /\ pc = "draining" /\ impl = "index" /\ netPending
  /\ \E outcome \in CreateOutcomes :
       /\ trace' = Append(trace, Ev("settle", "createRepository", outcome,
                            IF outcome = "ok" THEN sshUrl(data.name) ELSE ""))
       /\ unhandled' = (unhandled \/ outcome # "ok")
  /\ netPending' = FALSE
  /\ UNCHANGED <<impl, arg0, interactive, force, fs0, prefs0, saved, probe,
                 result, prefs, fs, pc, exitCode, ans, data, queue, runs>>

----------------------------------------------------------------------------
\* index.js, first script (top-level callback chain)

\* createRepo(): the three questions are asked
LegacyAskRepo(t) == Append(t, Ev("prompt", "create", "", ""))

\* githubAuth's callback with a token: authenticate, then createRepo
LegacyAuthed(t, tok) ==
  LegacyAskRepo(Log(Append(t, Ev("host", "authenticate", "oauth", tok)),
                    "Successfully authenticated!"))

\* the top level: the .git check, then githubAuth -> getGithubToken
LegacyStart ==
  /\ pc = "start" /\ impl = "legacy"
  /\ IF directoryExists(fs, ".git")
     THEN /\ trace' = Log(trace, PreflightMessage("AlreadyInitialized"))
          /\ Exit(0)
     ELSE IF prefs # NoToken
     THEN /\ trace' = LegacyAuthed(trace, prefs)
          /\ pc' = "promptRepo"
          /\ UNCHANGED exitCode
     ELSE /\ trace' = Append(trace, Ev("prompt", "auth", "", ""))
          /\ pc' = "promptCreds"
          /\ UNCHANGED exitCode
  /\ UNCHANGED <<impl, arg0, interactive, force, fs0, prefs0, saved, probe,
                 result, prefs, fs, ans, data, netPending, queue, unhandled,
                 runs>>

\* getGithubCredentials answered: the token request goes out
LegacyAnswerCreds ==
  /\ pc = "promptCreds" /\ impl = "legacy"
  /\ trace' = IssueCreateToken(trace)
  /\ netPending' = TRUE
  /\ pc' = "awaitToken"
  /\ UNCHANGED <<impl, arg0, interactive, force, fs0, prefs0, saved, probe,
                 result, prefs, fs, exitCode, ans, data, queue, unhandled,
                 runs>>

\* what githubAuth's callback prints for an error
LegacyAuthErrorLog(t, code) ==
  CASE code = "401" -> Log(t, "Couldn't log you in. Please try again.")
    [] code = "422" -> Log(t, "You already have an access token.")
    [] OTHER -> t

\* the callback of github.authorization.create in getGithubToken
LegacyTokenSettles ==
  /\ pc = "awaitToken" /\ impl = "legacy" /\ netPending
  /\ \E outcome \in TokenOutcomes, tok \in IssuedTokens :
       LET t1 == Append(trace, Ev("settle", "createToken", outcome,
                                  IF outcome = "ok" THEN tok ELSE ""))
       IN /\ prefs' = TokenToStore(prefs, outcome, tok)
          /\ saved' = IF outcome = "ok" THEN tok ELSE saved
          /\ CASE outcome = "ok" ->
                 /\ trace' = LegacyAuthed(t1, tok)
                 /\ pc' = "promptRepo"
            [] outcome = "noToken" ->
                 /\ trace' = Append(t1, Ev("host", "authenticate", "oauth",
                                           Undefined))
                 /\ pc' = "draining"
            [] OTHER ->
                 /\ trace' = LegacyAuthErrorLog(t1, outcome)
                 /\ pc' = "draining"
  /\ netPending' = FALSE
  /\ UNCHANGED <<impl, arg0, interactive, force, fs0, prefs0, probe,
                 result, fs, exitCode, ans, data, queue, unhandled, runs>>

\* createRepo's questions answered: github.repos.create goes out
LegacyAnswerRepo ==
  /\ pc = "promptRepo" /\ impl = "legacy"
  /\ \E name \in RepoNames, description \in Descriptions,
        visibility \in {"public", "private"} :
       /\ ans' = [ans EXCEPT !.name = name, !.description = description,
                             !.visibility = visibility]
       /\ data' = [name |-> name, description |-> description,
                   private |-> Bool(visibility = "private")]
       /\ trace' = Append(trace, Ev("host", "createRepository", name, ""))
  /\ netPending' = TRUE
  /\ pc' = "awaitCreate"
  /\ UNCHANGED <<impl, arg0, interactive, force, fs0, prefs0, saved, probe,
                 result, prefs, fs, exitCode, queue, unhandled, runs>>

\* the callback of github.repos.create: createInitialFiles asks for a README
LegacyCreateSettles ==
  /\ pc = "awaitCreate" /\ impl = "legacy" /\ netPending
  /\ \E outcome \in CreateOutcomes :
       /\ IF outcome = "ok"
          THEN /\ trace' = Append(
                    Append(trace, Ev("settle", "createRepository", "ok",
                                     sshUrl(data.name))),
                    Ev("prompt", "readme", "", ""))
               /\ pc' = "promptReadme"
          ELSE /\ trace' = Log(
                    Append(trace, Ev("settle", "createRepository", outcome, "")),
                    "An error has occured")
               /\ pc' = "draining"
  /\ netPending' = FALSE
  /\ UNCHANGED <<impl, arg0, interactive, force, fs0, prefs0, saved, probe,
                 result, prefs, fs, exitCode, ans, data, queue, unhandled,
                 runs>>

\* the simple-git chain setupRepo(url, callback) builds
LegacySetupOps(url) ==
  << Ev("vcs", "init", "", ""),
     Ev("vcs", "add", ".gitignore", ""),
     Ev("vcs", "add", "./*", ""),
     Ev("vcs", "commit", "Initial commit", ""),
     Ev("vcs", "addRemote", "origin", url),
     Ev("vcs", "push", "origin", "master"),
     Ev("then", "callback", "", "") >>

\* argv._[0] || files.getCurrentDirectoryBase()
LegacyDefaultName == IF arg0 # "" THEN arg0 ELSE getCurrentDirectoryBase

\* the .gitignore createInitialFiles leaves for a selection
LegacyIgnoreWrite(f, ignore) ==
  IF Len(ignore) > 0
  THEN createFile(f, ".gitignore", join(ignore, "\n"))
  ELSE touch(f, ".gitignore")

LegacyIgnoreEvent(ignore) ==
  IF Len(ignore) > 0
  THEN Ev("write", "createFile", ".gitignore", join(ignore, "\n"))
  ELSE Ev("write", "touch", ".gitignore", "")

\* setupRepo started before the .gitignore is there
LegacySetupThenIgnore(t, ignoreEvent, ops) == Append(t \o ops, ignoreEvent)

\* createInitialFiles leaves .gitignore, then its callback runs setupRepo
LegacyIgnoreThenSetup(t, ignoreEvent, ops) == Append(t, ignoreEvent) \o ops

\* createInitialFiles: the README answer, then the ignore list or touch
LegacyAnswerReadme ==
  /\ pc = "promptReadme" /\ impl = "legacy"
  /\ \E wantReadme \in BOOLEAN :
       LET content == ReadmeContent(LegacyDefaultName)
           f1 == IF wantReadme THEN createFile(fs, "README.md", content)
                 ELSE fs
           t1 == IF wantReadme
                 THEN Append(trace, Ev("write", "createFile", "README.md",
                                       content))
                 ELSE trace
           filelist == getDirectoryFiles(f1)
           ops == LegacySetupOps(sshUrl(data.name))
       IN /\ ans' = [ans EXCEPT !.wantReadme = wantReadme]
          /\ IF Len(filelist) > 0
             THEN /\ fs' = f1
                  /\ trace' = Append(t1, Ev("prompt", "ignore", "", ""))
                  /\ pc' = "promptIgnore"
                  /\ UNCHANGED queue
             ELSE /\ fs' = LegacyIgnoreWrite(f1, <<>>)
                  /\ trace' = LegacyIgnoreThenSetup(t1, LegacyIgnoreEvent(<<>>),
                                                    ops)
                  /\ queue' = ops
                  /\ pc' = "draining"
  /\ UNCHANGED <<impl, arg0, interactive, force, fs0, prefs0, saved, probe,
                 result, prefs, exitCode, data, netPending, unhandled, runs>>

\* the checkbox answered: .gitignore written, then setupRepo
LegacyAnswerIgnore ==
  /\ pc = "promptIgnore" /\ impl = "legacy"
  /\ \E chosen \in SUBSET DOMAIN fs :
       LET ignore == SelectSeq(getDirectoryFiles(fs), LAMBDA n : n \in chosen)
           ops == LegacySetupOps(sshUrl(data.name))
       IN /\ chosen \subseteq {n \in DOMAIN fs : n # ".git" /\ n # ".gitignore"}
          /\ ans' = [ans EXCEPT !.ignore = ignore]
          /\ fs' = LegacyIgnoreWrite(fs, ignore)
          /\ trace' = LegacyIgnoreThenSetup(trace, LegacyIgnoreEvent(ignore),
                                            ops)
          /\ queue' = ops
  /\ pc' = "draining"
  /\ UNCHANGED <<impl, arg0, interactive, force, fs0, prefs0, saved, probe,
                 result, prefs, exitCode, data, netPending, unhandled, runs>>

----------------------------------------------------------------------------
\* simple-git: runs the issued tasks one at a time, drops the rest on failure

GitEffect(f, task) ==
  IF task.op = "init" /\ ".git" \notin DOMAIN f
  THEN createFile(f, ".git", DirMark) ELSE f

GitRunNext ==
  /\ Running /\ queue # <<>>
  /\ LET task == Head(queue)
     IN \E ok \in BOOLEAN :
          IF task.k = "then"
          THEN /\ ok
               /\ queue' = Tail(queue)
               /\ trace' = Log(trace, "All done!")
               /\ UNCHANGED <<fs, unhandled>>
          ELSE IF ok
          THEN /\ fs' = GitEffect(fs, task)
               /\ queue' = Tail(queue)
               /\ trace' = Append(trace, Ev("vcsdone", task.op, "ok", ""))
               /\ UNCHANGED unhandled
          ELSE /\ queue' = <<>>
               /\ unhandled' = TRUE
               /\ trace' = Append(trace, Ev("vcsdone", task.op, "fail", ""))
               /\ UNCHANGED fs
  /\ UNCHANGED <<impl, arg0, interactive, force, fs0, prefs0, saved, probe,
                 result, prefs, pc, exitCode, ans, data, netPending, runs>>

\* nothing left to wait for: the process ends by itself, with code 0; after
\* an error nobody handled (a rejected promise nobody awaits, a failed
\* simple-git task without handler) the code depends on the runtime: 0 or 1
ProcessEnd ==
  /\ pc = "draining" /\ queue = <<>> /\ ~netPending
  /\ \E code \in (IF unhandled THEN {0, 1} ELSE {0}) : Exit(code)
  /\ UNCHANGED <<impl, arg0, interactive, force, fs0, prefs0, saved, probe,
                 result, prefs, fs, ans, data, netPending, queue, unhandled,
                 trace, runs>>

\* the user starts the tool again
NewInvocation ==
  /\ pc = "exited" /\ runs < MaxRuns
  /\ runs' = runs + 1
  /\ \E i \in Invocations :
       /\ impl' = i.impl /\ arg0' = i.arg0
       /\ interactive' = i.interactive /\ force' = i.force
  /\ pc' = "start"
  /\ exitCode' = -1
  /\ ans' = NoAnswers
  /\ data' = NoData
  /\ netPending' = FALSE
  /\ queue' = <<>>
  /\ unhandled' = FALSE
  /\ trace' = <<>>
  /\ fs0' = fs
  /\ prefs0' = prefs
  /\ UNCHANGED <<prefs, saved, fs, probe, result>>

Next ==
  \/ CliRunInit
  \/ CliAnswerCreate
  \/ CliAnswerFiles
  \/ CliCreateSettles
  \/ CliRunAuth
  \/ CliAnswerAuth
  \/ CliTokenSettles
  \/ IndexRunAuth
  \/ IndexRunInit
  \/ IndexCreateSettles
  \/ LegacyStart
  \/ LegacyAnswerCreds
  \/ LegacyTokenSettles
  \/ LegacyAnswerRepo
  \/ LegacyCreateSettles
  \/ LegacyAnswerReadme
  \/ LegacyAnswerIgnore
  \/ GitRunNext
  \/ ProcessEnd
  \/ NewInvocation

Spec == Init /\ [][Next]_vars

----------------------------------------------------------------------------
\* lib/files.js on its own: each function called once on a path of any kind

InitFiles ==
  /\ impl = "cli" /\ arg0 = "" /\ interactive = FALSE /\ force = FALSE
  /\ prefs = NoToken /\ prefs0 = NoToken /\ saved = NoToken
  /\ fs = <<>> /\ fs0 = <<>>
  /\ Fresh
  /\ runs = 1
  /\ probe \in Probes
  /\ result = NoResult

FilesFrame ==
  UNCHANGED <<impl, arg0, interactive, force, prefs, prefs0, saved, fs, fs0,
              pc, exitCode, ans, data, netPending, queue, unhandled, trace,
              runs, probe>>

CallDirectoryExists ==
  /\ result = NoResult
  /\ result' = directoryExistsAt(probe)
  /\ FilesFrame

CallDirectoryHasFiles ==
  /\ result = NoResult
  /\ result' = directoryHasFilesAt(probe)
  /\ FilesFrame

CallGetDirectoryFiles ==
  /\ result = NoResult
  /\ result' = getDirectoryFilesAt(probe)
  /\ FilesFrame

NextFiles ==
  \/ CallDirectoryExists
  \/ CallDirectoryHasFiles
  \/ CallGetDirectoryFiles

SpecFiles == InitFiles /\ [][NextFiles]_vars

----------------------------------------------------------------------------
\* Reading the trace of the current invocation

Kind(k) == SelectSeq(trace, LAMBDA e : e.k = k)
VcsIssued == Kind("vcs")
HostCalls == Kind("host")
Prompts == Kind("prompt")
Writes == Kind("write")

CreateIssued ==
  \E i \in DOMAIN trace :
    trace[i].k = "host" /\ trace[i].op = "createRepository"

CreateSettled(outcome) ==
  \E i \in DOMAIN trace :
    /\ trace[i].k = "settle" /\ trace[i].op = "createRepository"
    /\ trace[i].a = outcome

Wrote(file) == \E i \in DOMAIN trace : trace[i].k = "write" /\ trace[i].a = file

\* the invocation runs the init workflow of cli.js or of the rewritten index.js
RunInitOf(script) == impl = script /\ arg0 # "auth"

NoEffectYet ==
  /\ HostCalls = <<>> /\ Prompts = <<>> /\ Writes = <<>> /\ VcsIssued = <<>>
  /\ fs = fs0

----------------------------------------------------------------------------
\* Claims

\* C1: if createRepository fails with NameConflict during init, no VCS
\* operation is issued in that run and the directory holds the same files as
\* before the run (no README.md or .gitignore is left behind).  Stated for
\* runInit of cli.js.
C1_NameConflictLeavesWorkspace ==
  (RunInitOf("cli") /\ CreateSettled("NameConflict"))
    => (VcsIssued = <<>> /\ DOMAIN fs = DOMAIN fs0)

\* C2: every VCS operation of an init run is issued after createRepository
\* has settled successfully; none is issued while the request is outstanding
\* or after it failed.  Stated for runInit of the rewritten index.js.
C2_VcsOnlyAfterCreateOk ==
  RunInitOf("index") =>
    \A i \in DOMAIN trace :
      trace[i].k = "vcs" =>
        \E j \in 1..(i - 1) :
          /\ trace[j].k = "settle" /\ trace[j].op = "createRepository"
          /\ trace[j].a = "ok"

\* C3: a run in a directory that holds a .git directory exits with a non-zero
\* code, having made no hosting call, shown no prompt and changed no file or
\* VCS state.  Stated for the first script of index.js.
C3_GitDirRefusedNonZero ==
  (impl = "legacy" /\ directoryExists(fs0, ".git"))
    => /\ NoEffectYet
       /\ pc \in {"start", "exited"}
       /\ pc = "exited" => exitCode # 0

\* C4: init in an empty directory without --interactive and without --force
\* exits with a non-zero code, and creates no repository, writes no file and
\* issues no VCS operation.
C4_EmptyDirRefused ==
  ((RunInitOf("cli") \/ RunInitOf("index"))
     /\ DOMAIN fs0 = {} /\ ~interactive /\ ~force)
    => /\ ~CreateIssued /\ Writes = <<>> /\ VcsIssued = <<>> /\ fs = fs0
       /\ pc \in {"start", "exited"}
       /\ pc = "exited" => exitCode # 0

C4_Witness ==
  /\ RunInitOf("cli") /\ DOMAIN fs0 = {} /\ ~interactive /\ ~force
  /\ prefs # NoToken
  /\ pc = "exited" /\ exitCode = 1

\* the chain the specification asks for in a directory with files
FullChain(url) ==
  << Ev("vcs", "init", "", ""),
     Ev("vcs", "add", ".", ""),
     Ev("vcs", "commit", "Initial commit", ""),
     Ev("vcs", "addRemote", "origin", url),
     Ev("vcs", "push", "origin", "master") >>

\* C5: in a non-empty directory, once createRepository has returned cloneUrl,
\* the run has issued exactly init, stageAll, commit("Initial commit"),
\* addRemote("origin", cloneUrl), push("origin", "master"), in that order.
\* Stated for runInit of the rewritten index.js.
C5_FullChainWithCloneUrl ==
  (RunInitOf("index") /\ directoryHasFiles(fs0))
    => \A i \in DOMAIN trace :
         (/\ trace[i].k = "settle" /\ trace[i].op = "createRepository"
          /\ trace[i].a = "ok")
           => VcsIssued = FullChain(trace[i].b)

\* C6: init --force (not interactive) in an empty directory, once
\* createRepository has returned cloneUrl, has issued init and then
\* addRemote("origin", cloneUrl) and nothing else: no add, commit or push.
C6_ForcedEmptyDirOnlyInitAndRemote ==
  (RunInitOf("cli") /\ DOMAIN fs0 = {} /\ ~interactive /\ force)
    => /\ ~CreateSettled("ok") => VcsIssued = <<>>
       /\ \A i \in DOMAIN trace :
            (/\ trace[i].k = "settle" /\ trace[i].op = "createRepository"
             /\ trace[i].a = "ok")
              => VcsIssued = << Ev("vcs", "init", "", ""),
                                Ev("vcs", "addRemote", "origin", trace[i].b) >>

C6_Witness ==
  /\ RunInitOf("cli") /\ DOMAIN fs0 = {} /\ ~interactive /\ force
  /\ CreateSettled("ok")
  /\ \E i \in DOMAIN trace :
       trace[i] = Ev("vcsdone", "addRemote", "ok", "")
  /\ pc = "exited"

\* every VCS operation issued has run, and none failed
VcsAllDone ==
  /\ queue = <<>>
  /\ \A i \in DOMAIN trace : trace[i].k = "vcsdone" => trace[i].a = "ok"

\* C7: init exits with 0 when the workflow succeeds and with 1 when it fails,
\* be it a precondition, createRepository or a VCS operation.  Stated for
\* runInit of cli.js.
C7_ExitCodeTellsOutcome ==
  (RunInitOf("cli") /\ pc = "exited")
    => IF CreateSettled("ok") /\ VcsAllDone
       THEN exitCode = 0 ELSE exitCode = 1

\* the three preflight conditions, on the state the invocation found
ChecksPass ==
  /\ prefs # NoToken
  /\ ~(".git" \in DOMAIN fs0 /\ fs0[".git"] = DirMark)
  /\ (DOMAIN fs0 # {} \/ interactive \/ force)

\* C8: in an init run nothing happens before the three preflight checks have
\* passed: while one of them fails there is no hosting call, no prompt, no
\* file write and no VCS operation, and the run ends at once with code 1 (in
\* particular when no token is stored).
C8_NothingBeforePreflight ==
  ((RunInitOf("cli") \/ RunInitOf("index")) /\ ~ChecksPass)
    => /\ NoEffectYet
       /\ pc \in {"start", "exited"}
       /\ pc = "exited" => exitCode = 1

C8_Witness ==
  /\ RunInitOf("cli") /\ prefs = NoToken
  /\ DOMAIN fs0 # {} /\ ".git" \notin DOMAIN fs0
  /\ pc = "exited" /\ exitCode = 1 /\ NoEffectYet

\* C9: on interactive init with a .gitignore requested, the .gitignore holds
\* exactly the entries the user selected, joined by newlines, and is empty
\* when none was selected.  Stated for runInit of cli.js.
C9_IgnoreHoldsSelection ==
  (RunInitOf("cli") /\ interactive /\ ans.wantIgnore)
    => /\ ".gitignore" \in DOMAIN fs
       /\ fs[".gitignore"] = join(ans.ignore, "\n")

\* C10: on an interactive run the scaffold files follow the answers: README.md
\* is written exactly when wantReadme is true, as "# " and the repository name
\* the user answered, and .gitignore is created exactly when wantIgnore is
\* true.  Stated for the first script of index.js, once it has wired the
\* repository.
C10_ScaffoldFollowsAnswers ==
  (impl = "legacy" /\ VcsIssued # <<>>)
    => /\ Wrote("README.md") <=> ans.wantReadme
       /\ ans.wantReadme => fs["README.md"] = "# " \o ans.name
       /\ Wrote(".gitignore") <=> ans.wantIgnore

\* C11: the descriptor handed to createRepository.  Without --interactive:
\* the directory's base name, no description, not private, and no scaffold
\* file written.  With --interactive: the answered name and description, and
\* private exactly when the answered visibility is 'private'.
C11_DescriptorFromModeOrAnswers ==
  ((RunInitOf("cli") \/ RunInitOf("index")) /\ CreateIssued)
    => /\ \A i \in DOMAIN trace :
            (trace[i].k = "host" /\ trace[i].op = "createRepository")
              => trace[i].a = data.name
       /\ IF interactive
          THEN /\ data.name = ans.name
               /\ data.description = ans.description
               /\ data.private = "true" <=> ans.visibility = "private"
               /\ data.private = "false" <=> ans.visibility = "public"
          ELSE /\ data.name = "myrepo"
               /\ data.description = Undefined
               /\ data.private # "true"
               /\ Writes = <<>>

C11_Witness ==
  /\ RunInitOf("cli") /\ interactive /\ CreateIssued
  /\ data = [name |-> "foo", description |-> "a demo", private |-> "true"]
  /\ ans.visibility = "private"

\* C12: the token auth saved is the token a later invocation loads: the store
\* holds exactly the last token saved (a later save replaces the earlier
\* value), it is unchanged from one process to the next, and the token an init
\* run authenticates with is the stored one.
C12_TokenRoundTrip ==
  /\ saved # NoToken => prefs = saved
  /\ (pc = "start" /\ saved # NoToken) => prefs0 = saved
  /\ \A i \in DOMAIN trace :
       (/\ prefs0 # NoToken
        /\ trace[i].k = "host" /\ trace[i].op = "authenticate"
        /\ trace[i].a = "oauth")
         => trace[i].b = prefs0

C12_Witness ==
  /\ runs = 2 /\ saved = "t2" /\ RunInitOf("cli")
  /\ \E i \in DOMAIN trace : trace[i] = Ev("host", "authenticate", "oauth", "t2")

\* C13: with no command the init workflow runs, as with 'init'; 'auth' runs
\* the authentication flow only: no createRepository, no VCS operation, no
\* scaffold write.
C13_Dispatch ==
  (impl = "cli" /\ pc # "start")
    => /\ trace # <<>>
       /\ IF arg0 = "auth"
          THEN /\ trace[1] = Ev("prompt", "auth", "", "")
               /\ ~CreateIssued /\ VcsIssued = <<>> /\ Writes = <<>>
               /\ fs = fs0
          ELSE /\ \/ trace[1].k = "log"
                  \/ trace[1] = Ev("host", "authenticate", "oauth", prefs0)
               /\ \A i \in DOMAIN trace :
                    /\ trace[i] # Ev("prompt", "auth", "", "")
                    /\ trace[i].op # "createToken"
               /\ prefs = prefs0

C13_Witness ==
  /\ impl = "cli" /\ arg0 = "" /\ pc = "exited"
  /\ CreateSettled("ok")
  /\ \E i \in DOMAIN trace : trace[i] = Ev("vcsdone", "push", "ok", "")

IsSuccessLog(e) ==
  /\ e.k = "log"
  /\ e.op \in {"Repository initalized with files.",
               "Repository initalized without files."}

\* C14: the success message of init is printed only after every VCS operation
\* of the run has completed, so no failing operation is followed or preceded
\* by a report of success.  Stated for runInit of cli.js.
C14_SuccessOnlyAfterWiring ==
  RunInitOf("cli") =>
    \A i \in DOMAIN trace :
      IsSuccessLog(trace[i]) =>
        \A j \in DOMAIN trace :
          trace[j].k = "vcs" =>
            \E m \in (j + 1)..(i - 1) :
              trace[m] = Ev("vcsdone", trace[j].op, "ok", "")

\* operations under way: a hosting request, the running VCS task, a prompt
InFlight ==
  (IF netPending THEN 1 ELSE 0)
  + (IF queue # <<>> THEN 1 ELSE 0)
  + (IF pc \in {"promptAuth", "promptCreate", "promptFiles"} THEN 1 ELSE 0)

\* C15: at most one externally visible operation is in flight, and the
\* orchestrator reports and finishes only once the previous operation has
\* settled.  Stated for runInit of cli.js.
C15_OneOperationInFlight ==
  RunInitOf("cli") =>
    /\ InFlight <= 1
    /\ pc \in {"draining", "exited"} => InFlight = 0

\* C16: the wiring branch follows the directory as it is when the repository
\* is wired: an interactive run in a directory found empty issues the full
\* chain when it scaffolded a file and only init and addRemote when it did not.
C16_BranchFromDirectoryAtWiring ==
  ((RunInitOf("cli") \/ RunInitOf("index"))
     /\ interactive /\ DOMAIN fs0 = {})
    => \A i \in DOMAIN trace :
         (/\ trace[i].k = "settle" /\ trace[i].op = "createRepository"
          /\ trace[i].a = "ok")
           => VcsIssued =
                IF Writes # <<>>
                THEN FullChain(trace[i].b)
                ELSE << Ev("vcs", "init", "", ""),
                        Ev("vcs", "addRemote", "origin", trace[i].b) >>

C16_Witness ==
  /\ RunInitOf("cli") /\ interactive /\ DOMAIN fs0 = {}
  /\ Wrote("README.md") /\ CreateSettled("ok")
  /\ Len(VcsIssued) = 5

\* C17: the stored token changes only when createToken answers with a token,
\* and then it is that token; after any failure, and in every run that does
\* not ask for a token, the store is as the invocation found it.
C17_StoreChangesOnlyOnToken ==
  IF \E i \in DOMAIN trace :
       /\ trace[i].k = "settle" /\ trace[i].op = "createToken"
       /\ trace[i].a = "ok"
  THEN \A i \in DOMAIN trace :
         (trace[i].k = "settle" /\ trace[i].op = "createToken")
           => prefs = trace[i].b
  ELSE prefs = prefs0

C17_Witness ==
  /\ impl = "cli" /\ arg0 = "auth" /\ pc = "exited"
  /\ prefs0 = "t1" /\ prefs = "t1"
  /\ \E i \in DOMAIN trace : trace[i] = Ev("settle", "createToken", "500", "")

\* C18: every failure of createToken in auth gives the user a failure
\* message, whatever its status code.  Stated for runAuth of cli.js.
C18_TokenErrorReported ==
  (impl = "cli" /\ arg0 = "auth") =>
    \A i \in DOMAIN trace :
      (/\ trace[i].k = "settle" /\ trace[i].op = "createToken"
       /\ trace[i].a \in {"401", "422", "500"})
        => \E j \in (i + 1)..Len(trace) : trace[j].k = "log"

\* C19: every scaffold write of a run comes before its first VCS operation,
\* so none follows init and every scaffolded file is in the directory when
\* the files are staged.
C19_ScaffoldBeforeVcs ==
  \A i \in DOMAIN trace :
    trace[i].k = "write" =>
      /\ \A j \in DOMAIN trace :
           trace[j].k \in {"vcs", "vcsdone"} => i < j
      /\ VcsIssued # <<>> => trace[i].a \in DOMAIN fs

C19_Witness ==
  /\ RunInitOf("cli") /\ Wrote("README.md") /\ Wrote(".gitignore")
  /\ \E i \in DOMAIN trace : trace[i] = Ev("vcsdone", "commit", "ok", "")

\* C20: the functions of lib/files.js are total: on any path none raises,
\* directoryExists and directoryHasFiles answer false on a path that cannot
\* be read, getDirectoryFiles answers a list without '.git' and '.gitignore'.
C20_InspectorTotal ==
  /\ ~result.threw
  /\ (result.call = "directoryExists" /\ probe.kind = "ENOENT")
       => result.value = FALSE
  /\ (result.call = "directoryHasFiles" /\ probe.kind # "dir")
       => result.value = FALSE
  /\ result.call = "getDirectoryFiles"
       => \A i \in DOMAIN result.value :
            result.value[i] \notin {".git", ".gitignore"}

====
